---------------------------- MODULE Spec2Model ----------------------------
(***************************************************************************)
(* Relay timer (MajicDesigns/Relay-Timer, Relay_Timer2.ino).               *)
(*                                                                         *)
(* The sketch is one cooperative loop: every call of loop() executes one   *)
(* case of the switch on the static variable `state`.  A state of this     *)
(* module is the value of loop()'s statics, the relay pin and the          *)
(* millisecond counter at a loop-pass boundary; every action is one whole  *)
(* pass of loop() through one case.  Both implementations in the file      *)
(* (direct drive, lines 253-369, and 74HC595, lines 623-739) have the same *)
(* loop(); line numbers below refer to the first.                          *)
(***************************************************************************)
EXTENDS Integers, Naturals, Sequences, FiniteSets, TLC

----------------------------------------------------------------------------
(* Program constants *)

TIME_MAX_MINUTES == 99
TIME_INTERVAL == 5
TIME_MAX_SP == ((TIME_MAX_MINUTES * 60) + 59) \div TIME_INTERVAL

\* if (millis() - timeStart >= 1000) ... timeStart += 1000
TICK_MS == 1000
\* displayMessage("pause", 50)
PAUSE_MSG_MS == 50
\* displayMessage(char *pMesg, uint16_t duration = 2000)
MSG_MS == 2000


S_INIT == "S_INIT"
S_IDLE == "S_IDLE"
S_START == "S_START"
S_RUNNING == "S_RUNNING"
S_PAUSE == "S_PAUSE"
S_END == "S_END"
States == {S_INIT, S_IDLE, S_START, S_RUNNING, S_PAUSE, S_END}

\* result alphabet of MD_REncoder::read()
DIR_NONE == "DIR_NONE"
DIR_CW == "DIR_CW"
DIR_CCW == "DIR_CCW"
EncoderEvents == {DIR_NONE, DIR_CW, DIR_CCW}

\* result alphabet of MD_KeySwitch::read()
KS_NULL == "KS_NULL"
KS_PRESS == "KS_PRESS"
KS_LONGPRESS == "KS_LONGPRESS"
KeyEvents == {KS_NULL, KS_PRESS, KS_LONGPRESS}

\* digitalWrite(OUTPUT_PIN, HIGH / LOW)
HIGH == TRUE
LOW == FALSE

\* ARRAY_SIZE(digitPin); digit i is the line digitPin[i], "[0] is least sig
\* dig (LSD), [n] is MSD": digitPin[3] = D7 drives LED dig 1, the leftmost
NumDigits == 4
Digits == 0..(NumDigits - 1)

\* LED segments for digits 0..9, bit 7 is the decimal point
digits == <<63, 6, 91, 79, 102, 109, 125, 7, 127, 111>>
\* LED segments for A..Z
alpha == <<119, 124, 57, 94, 121, 113, 61, 118, 6, 14, 0, 56, 0,
           84, 63, 115, 103, 96, 109, 120, 62, 62, 0, 0, 110, 91>>
DECIMAL == 128

\* the messages of the sketch, each character as toupper(c) - 'A'
MesgHelo == <<7, 4, 11, 14>>
MesgPause == <<15, 0, 20, 18, 4>>
MesgEnd == <<4, 13, 3>>
NoMesg == <<>>

----------------------------------------------------------------------------
(* Bounds of the model *)

\* the dial is turned within MaxDial units of either end of its range
MaxDial == 2
\* a loop pass is at most MaxLate half seconds after the previous one
MaxLate == 4
\* a behaviour covers at most MaxQuanta half seconds of clock time
MaxQuanta == 16
\* millis() and timeStart are uint32_t; the model keeps the counter, the
\* baseline and their difference modulo 2^ClockBits (the model checker's
\* integers are 32 bit, and the arithmetic modulo 2^w is the same for any w
\* with 2^w above the longest lag between two passes)
ClockBits == 16
MSEC_MOD == 2^ClockBits

HalfTick == TICK_MS \div 2
Deltas == {k * HalfTick : k \in 0..MaxLate}
\* the set point of 1:00, the shortest run that borrows from minutes
OneMinuteSP == 60 \div TIME_INTERVAL
DialWindow ==
  (0..MaxDial) \cup {OneMinuteSP} \cup ((TIME_MAX_SP - MaxDial)..TIME_MAX_SP)

----------------------------------------------------------------------------
(* Integer conversions of the AVR build *)

\* value stored in a uint16_t
U16(x) == x % 65536
\* value stored in an int8_t
I8(x) == LET y == x % 256 IN IF y > 127 THEN y - 256 ELSE y
\* value stored in a uint32_t
U32(x) == x % MSEC_MOD
\* value stored in a uint8_t
U8(x) == x % 256

----------------------------------------------------------------------------
VARIABLES
  state,      \* static state_t state
  setPoint,   \* static uint16_t setPoint
  minutes,    \* static int8_t minutes
  seconds,    \* static int8_t seconds
  timeStart,  \* static uint32_t timeStart
  inMessage,  \* static boolean inMessage
  relay,      \* level of OUTPUT_PIN
  now,        \* value of the free-running millisecond counter
  \* history of the last loop pass, for stating properties
  prev,       \* value of state when the pass started
  prevSP,     \* value of setPoint when the pass started
  enc,        \* what RE.read() returned in the pass (DIR_NONE if not polled)
  btn,        \* what SW.read() returned in the pass (KS_NULL if not polled)
  fired,      \* TRUE iff the pass executed the elapsed-second branch
  \* history of the current run
  elapsed,    \* clock time since power-up of the model, in ms (not wrapped)
  \* (all four are 0 outside a run: the S_END pass clears them)
  sinceBase,  \* clock time that passed in S_RUNNING passes since timeStart
              \* was last assigned from millis()
  baseTicks,  \* elapsed-second ticks since timeStart was last assigned
  ticks,      \* elapsed-second ticks since the S_START pass
  armSecs,    \* 60*minutes+seconds when the S_START pass ran
  \* the display
  disp,       \* the display lines: on = the digits whose select line is at
              \* DIGIT_ON, seg = the pattern on the segment lines
  shown,      \* per digit, the pattern that was on the segment lines when
              \* its select line was last set to DIGIT_ON
  rend        \* locals and position of a displayTime / displayMessage call
              \* that is followed step by step (SpecDisplay)

vars == <<state, setPoint, minutes, seconds, timeStart, inMessage, relay, now,
          prev, prevSP, enc, btn, fired, elapsed, sinceBase, baseTicks, ticks,
          armSecs, disp, shown, rend>>

loopVars == <<state, setPoint, minutes, seconds, timeStart, inMessage, relay,
              now, prev, prevSP, enc, btn, fired, elapsed, sinceBase,
              baseTicks, ticks, armSecs>>

----------------------------------------------------------------------------
(* Pure parts of loop() *)

\* S_INIT: totalSeconds = setPoint * TIME_INTERVAL
TotalSeconds_U8(sp) == (sp * TIME_INTERVAL) % 256

TotalSeconds(sp) == U16(sp * TIME_INTERVAL)

\* S_INIT: seconds = totalSeconds % 60
InitSeconds(sp) == I8(TotalSeconds(sp) % 60)

\* S_INIT: minutes = totalSeconds / 60; clamp to TIME_MAX_MINUTES
InitMinutes(sp) ==
  LET m == I8(TotalSeconds(sp) \div 60)
  IN  IF m > TIME_MAX_MINUTES THEN TIME_MAX_MINUTES ELSE m

\* S_IDLE, rotary encoder block: the new setPoint
EncStep_Wrap(sp, x) ==
  CASE x = DIR_CW  -> IF sp < TIME_MAX_SP THEN sp + 1 ELSE 0
    [] x = DIR_CCW -> IF sp > 0 THEN sp - 1 ELSE TIME_MAX_SP
    [] OTHER       -> sp

EncStep(sp, x) ==
  CASE x = DIR_CW  -> IF sp < TIME_MAX_SP THEN sp + 1 ELSE sp
    [] x = DIR_CCW -> IF sp > 0 THEN sp - 1 ELSE sp
    [] OTHER       -> sp

\* S_IDLE, switch block: SW.read() == KS_PRESS && setPoint != 0
ArmAllowed_AnySetPoint(b, sp) == b = KS_PRESS

ArmAllowed_AnyKey(b, sp) == b # KS_NULL /\ sp # 0

ArmAllowed(b, sp) == b = KS_PRESS /\ sp # 0

\* S_IDLE: the next state
IdleNext_NoReload(sp, x, b) ==
  IF ArmAllowed(b, EncStep(sp, x)) THEN S_START ELSE S_IDLE

IdleNext(sp, x, b) ==
  IF ArmAllowed(b, EncStep(sp, x)) THEN S_START
  ELSE IF x # DIR_NONE THEN S_INIT ELSE S_IDLE

\* S_START: digitalWrite(OUTPUT_PIN, HIGH)
StartOutput_Low == LOW

StartOutput == HIGH

\* S_END: digitalWrite(OUTPUT_PIN, LOW)
EndOutput_High == HIGH

EndOutput == LOW

\* S_RUNNING: millis() - timeStart >= 1000, m the value of millis()
TickDue_Early(m, ts) == U32(m - ts) >= TICK_MS \div 10

TickDue_NoWrap(m, ts) == m >= ts + TICK_MS

TickDue(m, ts) == U32(m - ts) >= TICK_MS

\* S_RUNNING: timeStart += 1000, m the value of millis()
NextBase_Now(ts, m) == m

NextBase(ts, m) == U32(ts + TICK_MS)

\* S_RUNNING: the countdown step, <<minutes, seconds, ended>>
CountDown_Sixty(mi, se) ==
  IF se # 0 THEN <<mi, I8(se - 1), FALSE>>
  ELSE IF mi # 0 THEN <<I8(mi - 1), 60, FALSE>>
  ELSE <<mi, 60, TRUE>>

CountDown_NeverEnds(mi, se) ==
  IF se # 0 THEN <<mi, I8(se - 1), FALSE>>
  ELSE IF mi # 0 THEN <<I8(mi - 1), 59, FALSE>>
  ELSE <<mi, 59, FALSE>>

CountDown(mi, se) ==
  IF se # 0 THEN <<mi, I8(se - 1), FALSE>>
  ELSE IF mi # 0 THEN <<I8(mi - 1), 59, FALSE>>
  ELSE <<mi, 59, TRUE>>

\* S_PAUSE: timeStart = millis() on KS_PRESS
ResumeBase_Keep(ts, m) == ts

ResumeBase(ts, m) == m

\* S_PAUSE: inMessage = true on entry, inMessage = false on KS_PRESS and
\* on KS_LONGPRESS
PauseMessage_KeptOnAbort(b) == b # KS_PRESS

PauseMessage(b) == b \notin {KS_PRESS, KS_LONGPRESS}

\* S_PAUSE: the next state
PauseNext_Swapped(b) ==
  CASE b = KS_PRESS     -> S_END
    [] b = KS_LONGPRESS -> S_RUNNING
    [] OTHER            -> S_PAUSE

PauseNext(b) ==
  CASE b = KS_PRESS     -> S_RUNNING
    [] b = KS_LONGPRESS -> S_END
    [] OTHER            -> S_PAUSE

----------------------------------------------------------------------------
(* Pure parts of displayTime() and displayMessage() *)

\* displayTime: (decDigit == i ? DECIMAL : 0)
DpBit_FromLeft(dec, i) == IF dec = NumDigits - 1 - i THEN DECIMAL ELSE 0

DpBit(dec, i) == IF dec = i THEN DECIMAL ELSE 0

\* displayTime: pgm_read_byte(digits + dig) + DpBit, passed as uint8_t
TimeSeg(dig, dec, i) == U8(digits[dig + 1] + DpBit(dec, i))

\* displayMessage: the pattern of the character p points at (p counts from
\* 1), 0 once p is at the terminating '\0'
MesgSeg(txt, p) == IF p <= Len(txt) THEN alpha[txt[p] + 1] ELSE 0

\* the loops "turn all the digits off" run j up to ARRAY_SIZE(digitPin)
OffLoopEnd_Short == NumDigits - 1

OffLoopEnd == NumDigits

\* what a complete displayTime(val, dec) leaves on each digit
TimeShown(val, dec) ==
  [i \in Digits |-> TimeSeg((val \div (10^i)) % 10, dec, i)]

\* what a complete sweep of displayMessage(txt) leaves on each digit
MesgShown(txt) == [i \in Digits |-> MesgSeg(txt, NumDigits - i)]

\* no call is being followed
RendIdle ==
  [kind |-> "none", val0 |-> 0, dec |-> 0, txt |-> NoMesg, pc |-> "done",
   i |-> 0, j |-> 0, val |-> 0, p |-> 1, v |-> 0]

\* The display calls of one loop pass, taken as a whole: displayTime of
\* minutes*100+seconds with decimal digit 2 unless inMessage, then the
\* message of the case (NoMesg if the case shows none).
DisplayPass(msg) ==
  LET s1 == IF inMessage THEN shown
            ELSE TimeShown(U16(minutes * 100 + seconds), 2)
      d1 == IF inMessage THEN disp
            ELSE [on |-> {NumDigits - 1}, seg |-> s1[NumDigits - 1]]
  IN  /\ shown' = IF msg = NoMesg THEN s1 ELSE MesgShown(msg)
      /\ disp' = IF msg = NoMesg THEN d1
                 ELSE [on |-> {0}, seg |-> MesgShown(msg)[0]]
      /\ UNCHANGED rend

----------------------------------------------------------------------------
(* The clock *)

\* the pass reads the counter d ms after the previous pass did
Millis(d) == U32(now + d)

Clock(d) ==
  /\ elapsed + d <= MaxQuanta * HalfTick
  /\ elapsed' = elapsed + d
  /\ now' = Millis(d)

----------------------------------------------------------------------------
Init ==
  /\ state = S_INIT
  /\ setPoint \in {0, TIME_MAX_SP - MaxDial}
  /\ minutes = 0
  /\ seconds = 0
  /\ timeStart = 0
  /\ inMessage = FALSE
  /\ relay = LOW
  /\ now \in {MSG_MS, MSEC_MOD - 3 * TICK_MS}
  /\ prev = S_INIT
  /\ prevSP = setPoint
  /\ enc = DIR_NONE
  /\ btn = KS_NULL
  /\ fired = FALSE
  /\ elapsed = 0
  /\ sinceBase = 0
  /\ baseTicks = 0
  /\ ticks = 0
  /\ armSecs = 0
  /\ disp = [on |-> {0}, seg |-> MesgShown(MesgHelo)[0]]
  /\ shown = MesgShown(MesgHelo)
  /\ rend = RendIdle

\* case S_INIT
PassInit ==
  \E d \in Deltas :
    /\ state = S_INIT
    /\ Clock(d)
    /\ seconds' = InitSeconds(setPoint)
    /\ minutes' = InitMinutes(setPoint)
    /\ state' = S_IDLE
    /\ DisplayPass(NoMesg)
    /\ prev' = state /\ prevSP' = setPoint
    /\ enc' = DIR_NONE /\ btn' = KS_NULL /\ fired' = FALSE
    /\ UNCHANGED <<setPoint, timeStart, inMessage, relay,
                   sinceBase, baseTicks, ticks, armSecs>>

\* case S_IDLE
PassIdle ==
  \E d \in Deltas, x \in EncoderEvents, b \in KeyEvents :
    /\ state = S_IDLE
    /\ EncStep(setPoint, x) \in DialWindow
    /\ Clock(d)
    /\ setPoint' = EncStep(setPoint, x)
    /\ state' = IdleNext(setPoint, x, b)
    /\ DisplayPass(NoMesg)
    /\ prev' = state /\ prevSP' = setPoint
    /\ enc' = x /\ btn' = b /\ fired' = FALSE
    /\ UNCHANGED <<minutes, seconds, timeStart, inMessage, relay,
                   sinceBase, baseTicks, ticks, armSecs>>

\* case S_START
PassStart ==
  \E d \in Deltas :
    /\ state = S_START
    /\ Clock(d)
    /\ timeStart' = Millis(d)
    /\ relay' = StartOutput
    /\ state' = S_RUNNING
    /\ DisplayPass(NoMesg)
    /\ prev' = state /\ prevSP' = setPoint
    /\ enc' = DIR_NONE /\ btn' = KS_NULL /\ fired' = FALSE
    /\ sinceBase' = 0 /\ baseTicks' = 0 /\ ticks' = 0
    /\ armSecs' = 60 * minutes + seconds
    /\ UNCHANGED <<setPoint, minutes, seconds, inMessage>>

\* case S_RUNNING
PassRunning ==
  \E d \in Deltas, b \in KeyEvents :
    LET due == TickDue(Millis(d), timeStart)
        cd  == CountDown(minutes, seconds)
        st1 == IF due /\ cd[3] THEN S_END ELSE S_RUNNING
    IN
    /\ state = S_RUNNING
    /\ Clock(d)
    /\ timeStart' = IF due THEN NextBase(timeStart, Millis(d)) ELSE timeStart
    /\ minutes' = IF due THEN cd[1] ELSE minutes
    /\ seconds' = IF due THEN cd[2] ELSE seconds
    /\ state' = IF b = KS_PRESS THEN S_PAUSE ELSE st1
    /\ DisplayPass(NoMesg)
    /\ prev' = state /\ prevSP' = setPoint
    /\ enc' = DIR_NONE /\ btn' = b /\ fired' = due
    /\ sinceBase' = sinceBase + d
    /\ baseTicks' = IF due THEN baseTicks + 1 ELSE baseTicks
    /\ ticks' = IF due THEN ticks + 1 ELSE ticks
    /\ UNCHANGED <<setPoint, inMessage, relay, armSecs>>

\* case S_PAUSE
PassPause ==
  \E d \in Deltas, b \in KeyEvents :
    /\ state = S_PAUSE
    /\ d >= PAUSE_MSG_MS
    /\ Clock(d)
    /\ state' = PauseNext(b)
    /\ DisplayPass(MesgPause)
    /\ inMessage' = PauseMessage(b)
    /\ timeStart' = IF b = KS_PRESS THEN ResumeBase(timeStart, Millis(d))
                    ELSE timeStart
    /\ prev' = state /\ prevSP' = setPoint
    /\ enc' = DIR_NONE /\ btn' = b /\ fired' = FALSE
    /\ sinceBase' = IF b = KS_PRESS THEN 0 ELSE sinceBase
    /\ baseTicks' = IF b = KS_PRESS THEN 0 ELSE baseTicks
    /\ UNCHANGED <<setPoint, minutes, seconds, relay, ticks, armSecs>>

\* case S_END
PassEnd_ClearSetPoint ==
  \E d \in Deltas :
    /\ state = S_END
    /\ d >= MSG_MS
    /\ Clock(d)
    /\ relay' = EndOutput
    /\ state' = S_INIT
    /\ DisplayPass(MesgEnd)
    /\ setPoint' = 0
    /\ prev' = state /\ prevSP' = setPoint
    /\ enc' = DIR_NONE /\ btn' = KS_NULL /\ fired' = FALSE
    /\ sinceBase' = 0 /\ baseTicks' = 0 /\ ticks' = 0 /\ armSecs' = 0
    /\ UNCHANGED <<minutes, seconds, timeStart, inMessage>>

PassEnd ==
  \E d \in Deltas :
    /\ state = S_END
    /\ d >= MSG_MS
    /\ Clock(d)
    /\ relay' = EndOutput
    /\ state' = S_INIT
    /\ DisplayPass(MesgEnd)
    /\ prev' = state /\ prevSP' = setPoint
    /\ enc' = DIR_NONE /\ btn' = KS_NULL /\ fired' = FALSE
    /\ sinceBase' = 0 /\ baseTicks' = 0 /\ ticks' = 0 /\ armSecs' = 0
    /\ UNCHANGED <<setPoint, minutes, seconds, timeStart, inMessage>>

Next ==
  \/ PassInit
  \/ PassIdle
  \/ PassStart
  \/ PassRunning
  \/ PassPause
  \/ PassEnd

Spec == Init /\ [][Next]_vars

\* The same program started in S_INIT with any set point the dial can hold
\* (the remaining time 0:00 is what a run aborted at 0:00 leaves behind).
InitConv ==
  /\ state = S_INIT
  /\ setPoint \in 0..TIME_MAX_SP
  /\ minutes = 0
  /\ seconds = 0
  /\ timeStart = 0
  /\ inMessage = FALSE
  /\ relay = LOW
  /\ now = MSG_MS
  /\ prev = S_INIT
  /\ prevSP = setPoint
  /\ enc = DIR_NONE
  /\ btn = KS_NULL
  /\ fired = FALSE
  /\ elapsed = 0
  /\ sinceBase = 0
  /\ baseTicks = 0
  /\ ticks = 0
  /\ armSecs = 0
  /\ disp = [on |-> {0}, seg |-> MesgShown(MesgHelo)[0]]
  /\ shown = MesgShown(MesgHelo)
  /\ rend = RendIdle

SpecConv == InitConv /\ [][Next]_vars

----------------------------------------------------------------------------
(* displayTime() and displayMessage() step by step.  One call is followed    *)
(* from its entry; each write of a digit select line and each hand-over of   *)
(* a pattern to the segment driver (updateSegments in the direct-drive       *)
(* implementation, spiSend in the 74HC595 one) is a step.  The statics of    *)
(* loop() do not change meanwhile.                                           *)

\* the largest value of NumDigits decimal digits
MaxShown == 10^NumDigits - 1

\* the call being followed: displayTime(val, dec) or displayMessage(txt)
TimeCall(val, dec) ==
  [kind |-> "time", val0 |-> val, dec |-> dec, txt |-> NoMesg, pc |-> "top",
   i |-> 0, j |-> 0, val |-> val, p |-> 1, v |-> 0]

MesgCall(txt) ==
  [kind |-> "mesg", val0 |-> 0, dec |-> 0, txt |-> txt, pc |-> "top",
   i |-> NumDigits - 1, j |-> 0, val |-> 0, p |-> 1, v |-> 0]

\* The call starts with the lines as setup() or the previous call left
\* them: all digits off after setup(), digit 3 on after a displayTime,
\* digit 0 on after a displayMessage.  The while condition of
\* displayMessage holds on entry (no time has passed, the duration is
\* positive), so the call is followed from the first sweep.
InitDisplay ==
  /\ state = S_INIT
  /\ setPoint = 0
  /\ minutes = 0
  /\ seconds = 0
  /\ timeStart = 0
  /\ inMessage = FALSE
  /\ relay = LOW
  /\ now = MSG_MS
  /\ prev = S_INIT
  /\ prevSP = setPoint
  /\ enc = DIR_NONE
  /\ btn = KS_NULL
  /\ fired = FALSE
  /\ elapsed = 0
  /\ sinceBase = 0
  /\ baseTicks = 0
  /\ ticks = 0
  /\ armSecs = 0
  /\ \/ /\ shown = MesgShown(MesgHelo)
        /\ disp = [on |-> {0}, seg |-> shown[0]]
     \/ /\ shown = TimeShown(0, 2)
        /\ disp = [on |-> {NumDigits - 1}, seg |-> shown[NumDigits - 1]]
     \/ /\ shown = [i \in Digits |-> 0]
        /\ disp = [on |-> {}, seg |-> 0]
  /\ rend \in {TimeCall(val, dec) : val \in 0..MaxShown, dec \in Digits}
             \cup {MesgCall(txt) : txt \in {MesgHelo, MesgPause, MesgEnd}}

\* top of the body of the for loop over the digits: the pattern of digit i
RendTop ==
  /\ rend.pc = "top"
  /\ \/ /\ rend.kind = "time"
        /\ rend' = [rend EXCEPT !.v = TimeSeg(rend.val % 10, rend.dec, rend.i),
                                !.val = rend.val \div 10,
                                !.j = 0, !.pc = "off"]
     \/ /\ rend.kind = "mesg"
        /\ rend' = [rend EXCEPT !.v = MesgSeg(rend.txt, rend.p),
                                !.p = IF rend.p <= Len(rend.txt)
                                      THEN rend.p + 1 ELSE rend.p,
                                !.j = 0, !.pc = "off"]
  /\ UNCHANGED <<loopVars, disp, shown>>

\* digitalWrite(digitPin[j], DIGIT_OFF)
RendOff ==
  /\ rend.pc = "off"
  /\ disp' = [disp EXCEPT !.on = disp.on \ {rend.j}]
  /\ rend' = [rend EXCEPT !.j = rend.j + 1,
                          !.pc = IF rend.j + 1 >= OffLoopEnd THEN "seg"
                                 ELSE "off"]
  /\ UNCHANGED <<loopVars, shown>>

\* updateSegments(v) / spiSend(v): the eight segment lines take the bits of
\* v; no digit line is written between the first and the last of them
RendSeg ==
  /\ rend.pc = "seg"
  /\ disp' = [disp EXCEPT !.seg = rend.v]
  /\ rend' = [rend EXCEPT !.pc = "on"]
  /\ UNCHANGED <<loopVars, shown>>

\* digitalWrite(digitPin[i], DIGIT_ON), and the step of the for loop
RendOn ==
  /\ rend.pc = "on"
  /\ disp' = [disp EXCEPT !.on = disp.on \cup {rend.i}]
  /\ shown' = [shown EXCEPT ![rend.i] = disp.seg]
  /\ \/ /\ rend.kind = "time"
        /\ rend' = IF rend.i + 1 < NumDigits
                   THEN [rend EXCEPT !.i = rend.i + 1, !.pc = "top"]
                   ELSE [rend EXCEPT !.pc = "done"]
     \/ /\ rend.kind = "mesg"
        /\ rend' = IF rend.i - 1 >= 0
                   THEN [rend EXCEPT !.i = rend.i - 1, !.pc = "top"]
                   ELSE [rend EXCEPT !.pc = "while"]
  /\ UNCHANGED loopVars

\* displayMessage: while ((millis() - startTime) < duration), after a sweep
RendWhile ==
  /\ rend.pc = "while"
  /\ \/ rend' = [rend EXCEPT !.p = 1, !.i = NumDigits - 1, !.pc = "top"]
     \/ rend' = [rend EXCEPT !.pc = "done"]
  /\ UNCHANGED <<loopVars, disp, shown>>

NextDisplay ==
  \/ RendTop
  \/ RendOff
  \/ RendSeg
  \/ RendOn
  \/ RendWhile

SpecDisplay == InitDisplay /\ [][NextDisplay]_vars

----------------------------------------------------------------------------
(* The loop for as long as one likes.  The code reads the clock only in the  *)
(* difference millis() - timeStart, so the origin of the clock is moved to   *)
(* the end of every pass: now stays where it is and a time base that will be *)
(* read again is moved back by the time the pass took.  timeStart is read in *)
(* S_RUNNING only and both ways into S_RUNNING write it first, so outside    *)
(* S_RUNNING it is left alone.  The counters that measure a run against the  *)
(* clock stay at their initial values.                                       *)

\* a pass takes no longer than a tick of the count-down
LiveDeltas == {0, HalfTick, TICK_MS}

\* the dial stays on the first few set points or on 1:00
LiveDial == (0..MaxDial) \cup {OneMinuteSP}

\* the time base t, seen from a clock origin moved d later
LiveBase(t, d) == U32(t - d)

LiveInit ==
  /\ state = S_INIT
  /\ setPoint \in {0, OneMinuteSP}
  /\ minutes = 0
  /\ seconds = 0
  /\ timeStart = 0
  /\ inMessage = FALSE
  /\ relay = LOW
  /\ now = MSG_MS
  /\ prev = S_INIT
  /\ prevSP = setPoint
  /\ enc = DIR_NONE
  /\ btn = KS_NULL
  /\ fired = FALSE
  /\ elapsed = 0
  /\ sinceBase = 0
  /\ baseTicks = 0
  /\ ticks = 0
  /\ armSecs = 0
  /\ disp = [on |-> {0}, seg |-> MesgShown(MesgHelo)[0]]
  /\ shown = MesgShown(MesgHelo)
  /\ rend = RendIdle

\* case S_INIT
LivePassInit ==
  /\ state = S_INIT
  /\ seconds' = InitSeconds(setPoint)
  /\ minutes' = InitMinutes(setPoint)
  /\ state' = S_IDLE
  /\ DisplayPass(NoMesg)
  /\ prev' = state /\ prevSP' = setPoint
  /\ enc' = DIR_NONE /\ btn' = KS_NULL /\ fired' = FALSE
  /\ UNCHANGED <<setPoint, timeStart, inMessage, relay, now,
                 elapsed, sinceBase, baseTicks, ticks, armSecs>>

\* case S_IDLE
LivePassIdle ==
  \E x \in EncoderEvents, b \in KeyEvents :
    /\ state = S_IDLE
    /\ EncStep(setPoint, x) \in LiveDial
    /\ setPoint' = EncStep(setPoint, x)
    /\ state' = IdleNext(setPoint, x, b)
    /\ DisplayPass(NoMesg)
    /\ prev' = state /\ prevSP' = setPoint
    /\ enc' = x /\ btn' = b /\ fired' = FALSE
    /\ UNCHANGED <<minutes, seconds, timeStart, inMessage, relay, now,
                   elapsed, sinceBase, baseTicks, ticks, armSecs>>

\* case S_START
LivePassStart ==
  \E d \in LiveDeltas :
    /\ state = S_START
    /\ timeStart' = LiveBase(Millis(d), d)
    /\ relay' = StartOutput
    /\ state' = S_RUNNING
    /\ DisplayPass(NoMesg)
    /\ prev' = state /\ prevSP' = setPoint
    /\ enc' = DIR_NONE /\ btn' = KS_NULL /\ fired' = FALSE
    /\ UNCHANGED <<setPoint, minutes, seconds, inMessage, now,
                   elapsed, sinceBase, baseTicks, ticks, armSecs>>

\* case S_RUNNING
LivePassRunning ==
  \E d \in LiveDeltas, b \in KeyEvents :
    LET due == TickDue(Millis(d), timeStart)
        cd  == CountDown(minutes, seconds)
        st1 == IF due /\ cd[3] THEN S_END ELSE S_RUNNING
        ts1 == IF due THEN NextBase(timeStart, Millis(d)) ELSE timeStart
    IN
    /\ state = S_RUNNING
    /\ timeStart' = LiveBase(ts1, d)
    /\ minutes' = IF due THEN cd[1] ELSE minutes
    /\ seconds' = IF due THEN cd[2] ELSE seconds
    /\ state' = IF b = KS_PRESS THEN S_PAUSE ELSE st1
    /\ DisplayPass(NoMesg)
    /\ prev' = state /\ prevSP' = setPoint
    /\ enc' = DIR_NONE /\ btn' = b /\ fired' = due
    /\ UNCHANGED <<setPoint, inMessage, relay, now,
                   elapsed, sinceBase, baseTicks, ticks, armSecs>>

\* case S_PAUSE
LivePassPause ==
  \E d \in LiveDeltas, b \in KeyEvents :
    /\ state = S_PAUSE
    /\ d >= PAUSE_MSG_MS
    /\ state' = PauseNext(b)
    /\ DisplayPass(MesgPause)
    /\ inMessage' = PauseMessage(b)
    /\ timeStart' = IF b = KS_PRESS
                    THEN LiveBase(ResumeBase(timeStart, Millis(d)), d)
                    ELSE timeStart
    /\ prev' = state /\ prevSP' = setPoint
    /\ enc' = DIR_NONE /\ btn' = b /\ fired' = FALSE
    /\ UNCHANGED <<setPoint, minutes, seconds, relay, now,
                   elapsed, sinceBase, baseTicks, ticks, armSecs>>

\* case S_END
LivePassEnd ==
  /\ state = S_END
  /\ relay' = EndOutput
  /\ state' = S_INIT
  /\ DisplayPass(MesgEnd)
  /\ prev' = state /\ prevSP' = setPoint
  /\ enc' = DIR_NONE /\ btn' = KS_NULL /\ fired' = FALSE
  /\ UNCHANGED <<setPoint, minutes, seconds, timeStart, inMessage, now,
                 elapsed, sinceBase, baseTicks, ticks, armSecs>>

LiveNext ==
  \/ LivePassInit
  \/ LivePassIdle
  \/ LivePassStart
  \/ LivePassRunning
  \/ LivePassPause
  \/ LivePassEnd

\* the clock keeps advancing: a running count-down gets its tick
ClockAdvances == WF_vars(LivePassRunning /\ fired')

\* every pause is followed by a press or a long press
PauseAnswered == WF_vars(LivePassPause /\ btn' \in {KS_PRESS, KS_LONGPRESS})

\* loop() is called again and again
LoopRuns == WF_vars(LiveNext)

SpecLive ==
  /\ LiveInit
  /\ [][LiveNext]_vars
  /\ LoopRuns
  /\ ClockAdvances
  /\ PauseAnswered

----------------------------------------------------------------------------
(* Properties *)

\* the conversion of a set point to <<minutes, seconds>>, as the
\* specification states it
Conv(sp) == <<(sp * 5) \div 60, (sp * 5) % 60>>

\* C1 (as stated): at every loop-pass boundary the relay is energized if and
\* only if the state is S_START, S_RUNNING or S_PAUSE.
C1_RelayIffArmedRunningPaused ==
  relay = (state \in {S_START, S_RUNNING, S_PAUSE})

\* C1 (amended): at every loop-pass boundary the relay is energized if and
\* only if the state is S_RUNNING, S_PAUSE or S_END, and de-energized if and
\* only if it is S_INIT, S_IDLE or S_START: the pass that executes S_START
\* switches it on and the pass that executes S_END switches it off.
C1_RelayIffRunningPausedEnded ==
  relay = (state \in {S_RUNNING, S_PAUSE, S_END})

\* a run counted down to the end: S_END is pending and the relay is still on
C1_Witness ==
  state = S_END /\ prev = S_RUNNING /\ fired /\ relay = HIGH

\* C2: whenever the state is S_RUNNING or S_PAUSE the relay is on, also
\* after pause/resume cycles.
C2_ActiveRelayOn ==
  state \in {S_RUNNING, S_PAUSE} => relay = HIGH

\* running again after a pause was resumed, with ticks counted before it
C2_Witness ==
  state = S_RUNNING /\ prev = S_PAUSE /\ btn = KS_PRESS /\ ticks >= 1
  /\ relay = HIGH

\* C3: a S_RUNNING pass that starts with minutes = 0 and seconds = 0 and in
\* which the elapsed-second tick fires ends in S_END whatever button event is
\* polled in it, and minutes and seconds are never negative.
C3_ZeroEndsOnNextTick ==
  /\ [](minutes >= 0 /\ seconds >= 0)
  /\ [][(state = S_RUNNING /\ minutes = 0 /\ seconds = 0 /\ fired')
          => state' = S_END]_vars

\* C4: a run armed with RemainingDuration = 5 * setPoint seconds enters S_END
\* from S_RUNNING after exactly 5 * setPoint elapsed-second ticks counted in
\* S_RUNNING passes (time spent in S_PAUSE adds no tick).
C4_EndsAfterExactlySetSeconds ==
  [][(state = S_RUNNING /\ state' = S_END
        /\ armSecs = TIME_INTERVAL * setPoint)
       => ticks' = TIME_INTERVAL * setPoint]_vars

\* C5: a S_IDLE pass that polls KS_PRESS while setPoint is 0 and stays 0
\* never ends in S_START and leaves the relay off, whatever the encoder
\* returned in that pass.
C5_ZeroSetPointNotArmed ==
  [][(state = S_IDLE /\ btn' = KS_PRESS /\ setPoint = 0 /\ setPoint' = 0)
       => (state' \in {S_IDLE, S_INIT} /\ relay' = LOW /\ relay = LOW)]_vars

\* a press polled together with a counter-clockwise step at setPoint 0
C5_Witness ==
  prev = S_IDLE /\ btn = KS_PRESS /\ enc = DIR_CCW
  /\ prevSP = 0 /\ setPoint = 0 /\ state = S_INIT /\ relay = LOW

\* C6: whenever the state is S_START (entered from S_IDLE), minutes and
\* seconds are the conversion of the current setPoint.
C6_ArmedWithConvertedSetPoint ==
  state = S_START => <<minutes, seconds>> = Conv(setPoint)

\* C7: a S_PAUSE pass goes to S_RUNNING on KS_PRESS, to S_END on
\* KS_LONGPRESS and stays in S_PAUSE with the relay on otherwise; the S_END
\* pass switches the relay off and goes to S_INIT, and the S_INIT pass goes
\* to S_IDLE with the relay still off.
C7_PauseResumeAbort ==
  [][/\ (state = S_PAUSE /\ btn' = KS_PRESS) => state' = S_RUNNING
     /\ (state = S_PAUSE /\ btn' = KS_LONGPRESS) => state' = S_END
     /\ (state = S_PAUSE /\ btn' = KS_NULL)
          => (state' = S_PAUSE /\ relay' = HIGH)
     /\ state = S_END => (state' = S_INIT /\ relay' = LOW)
     /\ (state = S_INIT /\ prev = S_END)
          => (state' = S_IDLE /\ relay' = LOW)]_vars

\* a paused run has just been aborted by a long press: S_END is pending
C7_Witness ==
  state = S_END /\ prev = S_PAUSE /\ btn = KS_LONGPRESS /\ relay = HIGH

\* C8: a S_PAUSE pass never changes minutes or seconds, whatever the clock
\* does; the resuming pass sets timeStart to the clock value it read; and a
\* S_RUNNING pass decrements only when at least 1000 ms have passed in
\* S_RUNNING since timeStart was last assigned.
C8_PauseFreezesRemaining ==
  [][/\ state = S_PAUSE => (minutes' = minutes /\ seconds' = seconds)
     /\ (state = S_PAUSE /\ state' = S_RUNNING) => timeStart' = now'
     /\ (state = S_RUNNING /\ fired') => sinceBase' >= TICK_MS]_vars

\* the first decrement after a resume, in a run that had ticked before
C8_Witness ==
  state = S_RUNNING /\ prev = S_RUNNING /\ fired
  /\ baseTicks = 1 /\ ticks > 1 /\ sinceBase >= TICK_MS

\* C9: setPoint is always in 0..TIME_MAX_SP; in a S_IDLE pass a clockwise
\* step at TIME_MAX_SP and a counter-clockwise step at 0 leave it unchanged,
\* and every other step changes it by exactly one.
C9_SetPointClamped ==
  /\ [](setPoint \in 0..TIME_MAX_SP)
  /\ [][state = S_IDLE =>
          /\ enc' = DIR_CW =>
               setPoint' = IF setPoint = TIME_MAX_SP THEN setPoint
                           ELSE setPoint + 1
          /\ enc' = DIR_CCW =>
               setPoint' = IF setPoint = 0 THEN setPoint ELSE setPoint - 1
          /\ enc' = DIR_NONE => setPoint' = setPoint]_vars

\* a clockwise step polled at the maximum
C9_Witness ==
  prev = S_IDLE /\ enc = DIR_CW
  /\ prevSP = TIME_MAX_SP /\ setPoint = TIME_MAX_SP

\* C10: every loop pass that starts in a state other than S_IDLE leaves
\* setPoint unchanged.
C10_SetPointOnlyInIdle ==
  [][state # S_IDLE => setPoint' = setPoint]_vars

\* a run has ended and the set point it was armed with is still there
C10_Witness ==
  state = S_INIT /\ prev = S_END /\ setPoint # 0 /\ prevSP = setPoint

\* C11: for every setPoint in 0..TIME_MAX_SP the S_INIT pass sets minutes to
\* setPoint*5/60 clamped to at most 99 and seconds to (setPoint*5) mod 60,
\* and always ends in S_IDLE.
C11_InitConversion ==
  [][state = S_INIT =>
       /\ minutes' = (IF (setPoint * 5) \div 60 > 99 THEN 99
                      ELSE (setPoint * 5) \div 60)
       /\ seconds' = (setPoint * 5) % 60
       /\ state' = S_IDLE]_vars

\* the largest set point has been converted: 99:55
C11_Witness ==
  prev = S_INIT /\ state = S_IDLE /\ setPoint = TIME_MAX_SP
  /\ minutes = 99 /\ seconds = 55

\* C12: a S_IDLE or S_RUNNING pass that polls KS_LONGPRESS ends with the
\* state, setPoint, minutes, seconds and relay that the same pass ends with
\* when no button event is polled.
C12_LongPressIgnored ==
  [][(btn' = KS_LONGPRESS /\ state = S_IDLE) =>
         /\ state' = (IF enc' = DIR_NONE THEN S_IDLE ELSE S_INIT)
         /\ setPoint' = EncStep(setPoint, enc')
         /\ UNCHANGED <<minutes, seconds, relay>>]_vars
  /\
  [][(btn' = KS_LONGPRESS /\ state = S_RUNNING) =>
         /\ state' = (IF fired' /\ minutes = 0 /\ seconds = 0 THEN S_END
                      ELSE S_RUNNING)
         /\ <<minutes', seconds'>> =
              (IF ~fired' THEN <<minutes, seconds>>
               ELSE IF seconds # 0 THEN <<minutes, seconds - 1>>
               ELSE IF minutes # 0 THEN <<minutes - 1, 59>>
               ELSE <<0, 59>>)
         /\ UNCHANGED <<setPoint, relay>>]_vars

\* a long press polled in S_IDLE with a set point that a press would arm
C12_Witness ==
  prev = S_IDLE /\ btn = KS_LONGPRESS /\ enc = DIR_NONE
  /\ setPoint # 0 /\ state = S_IDLE /\ relay = LOW

\* C13: minutes and seconds change only in a S_INIT pass (reload) and in a
\* S_RUNNING pass whose elapsed-second branch ran; the number of decrements
\* since timeStart was last assigned from the clock, times 1000 ms, never
\* exceeds the clock time that has passed since.
C13_NeverRunsFast ==
  /\ [](baseTicks * TICK_MS <= sinceBase)
  /\ [][/\ state \notin {S_INIT, S_RUNNING}
             => UNCHANGED <<minutes, seconds>>
        /\ (state = S_RUNNING /\ <<minutes', seconds'>> # <<minutes, seconds>>)
             => (fired' /\ sinceBase' >= baseTicks' * TICK_MS)]_vars

\* the second decrement of a run came exactly two seconds after the arming
C13_Witness ==
  prev = S_RUNNING /\ fired /\ baseTicks = 2 /\ sinceBase = 2 * TICK_MS

\* C14: minutes is always in 0..99 and seconds in 0..59; for every set point
\* the dial can hold, setPoint*5 fits 16 bits and setPoint*5/60 is at most 99,
\* so the S_INIT pass stores the unclamped quotient.
C14_RangesNoOverflow ==
  /\ minutes \in 0..TIME_MAX_MINUTES
  /\ seconds \in 0..59
  /\ setPoint * TIME_INTERVAL < 65536
  /\ (setPoint * TIME_INTERVAL) \div 60 <= TIME_MAX_MINUTES
  /\ (prev = S_INIT /\ state = S_IDLE)
       => minutes = (setPoint * TIME_INTERVAL) \div 60

\* a countdown from 1:00 has borrowed from minutes: 0:59 after one tick
C14_Witness ==
  state = S_RUNNING /\ fired /\ ticks = 1 /\ armSecs = 60
  /\ minutes = 0 /\ seconds = 59

\* C17: a S_RUNNING pass decrements at most once and moves timeStart by
\* exactly 1000 ms when it does (not at all when it does not); timeStart is
\* therefore the clock value of the arming or resume plus 1000 ms per
\* decrement, and after a pass that found no tick due the number of
\* decrements is the number of whole seconds that have passed.
C17_CatchUpNoLoss ==
  /\ [](state = S_RUNNING =>
          U32(now - timeStart) = sinceBase - baseTicks * TICK_MS)
  /\ []((prev = S_RUNNING /\ ~fired) => baseTicks = sinceBase \div TICK_MS)
  /\ [][state = S_RUNNING =>
          /\ fired' => (timeStart' = U32(timeStart + TICK_MS)
                         /\ baseTicks' = baseTicks + 1)
          /\ ~fired' => (timeStart' = timeStart
                          /\ baseTicks' = baseTicks)]_vars

\* a pass came two seconds late, decremented once and still owes a second
C17_Witness ==
  state = S_RUNNING /\ prev = S_RUNNING /\ fired /\ baseTicks >= 1
  /\ U32(now - timeStart) >= TICK_MS

\* C19: in a S_RUNNING pass the elapsed-second branch runs exactly when at
\* least 1000 ms of clock time have passed since the instant timeStart stands
\* for, also when the counter has wrapped since, or timeStart + 1000 wraps.
C19_RolloverSafe ==
  [][state = S_RUNNING =>
       (fired' <=> (sinceBase' - baseTicks * TICK_MS >= TICK_MS))]_vars

\* a tick fired on a reading taken after the counter wrapped, against a
\* baseline taken before it wrapped
C19_Witness ==
  state = S_RUNNING /\ prev = S_RUNNING /\ fired
  /\ now < TICK_MS /\ timeStart > MSEC_MOD - 2 * TICK_MS

\* C20: in every loop pass that starts in S_RUNNING or S_PAUSE and ends in
\* S_RUNNING or S_PAUSE, 60*minutes+seconds stays the same or drops by one.
C20_RemainingNeverIncreases ==
  [][(state \in {S_RUNNING, S_PAUSE} /\ state' \in {S_RUNNING, S_PAUSE})
       => (\/ 60 * minutes' + seconds' = 60 * minutes + seconds
           \/ 60 * minutes' + seconds' = 60 * minutes + seconds - 1)]_vars

\* the digit that is k-th from the left, k = 1..NumDigits
FromLeft(k) == NumDigits - k

\* position i shows decimal digit i of the value, so the leftmost shows the
\* most significant one, and exactly one position has the decimal-point bit
ShowsValue ==
  /\ \A i \in Digits :
       shown[i] % DECIMAL = digits[((rend.val0 \div (10^i)) % 10) + 1]
  /\ Cardinality({i \in Digits : shown[i] >= DECIMAL}) = 1

Shows1205 ==
  <<shown[FromLeft(1)] % DECIMAL, shown[FromLeft(2)] % DECIMAL,
    shown[FromLeft(3)] % DECIMAL, shown[FromLeft(4)] % DECIMAL>>
    = <<digits[1 + 1], digits[2 + 1], digits[0 + 1], digits[5 + 1]>>

\* C15 (as stated): a finished displayTime shows the most significant digit
\* leftmost and lights exactly one decimal point; for 1205 with decimal
\* digit 2 the patterns are those of 1,2,0,5 and the point is on the
\* third digit from the left.
C15_DecimalThirdFromLeft ==
  (rend.kind = "time" /\ rend.pc = "done") =>
     /\ ShowsValue
     /\ (rend.val0 = 1205 /\ rend.dec = 2) =>
          (Shows1205 /\ shown[FromLeft(3)] >= DECIMAL)

\* C15 (amended): the same, with the point of 1205 / decimal digit 2 on the
\* second digit from the left: the decimal digit index counts from the least
\* significant digit, so the point stands between minutes and seconds.
C15_DecimalSecondFromLeft ==
  (rend.kind = "time" /\ rend.pc = "done") =>
     /\ ShowsValue
     /\ \A i \in Digits : (shown[i] >= DECIMAL) <=> (i = rend.dec)
     /\ (rend.val0 = 1205 /\ rend.dec = 2) =>
          (Shows1205 /\ shown[FromLeft(2)] >= DECIMAL)

\* displayTime(1205, 2) has finished and shows 12.05
C15_Witness ==
  /\ rend.kind = "time" /\ rend.pc = "done"
  /\ rend.val0 = 1205 /\ rend.dec = 2
  /\ shown[3] = digits[2] /\ shown[2] = digits[3] + DECIMAL
  /\ shown[1] = digits[1] /\ shown[0] = digits[6]

\* C16: while displayTime or displayMessage runs, at most one digit select
\* line is on at any instant, the segment lines change only while no digit
\* is on, and a digit is switched on only while no other is on.
C16_BlankBeforeLoad ==
  /\ [](Cardinality(disp.on) <= 1)
  /\ [][/\ disp'.seg # disp.seg => (disp.on = {} /\ disp'.on = {})
        /\ disp'.on # disp.on => (disp.on = {} \/ disp'.on = {})]_vars

\* the third position of a message has just been lit, after the blanking
C16_Witness ==
  /\ rend.kind = "mesg" /\ rend.pc = "top" /\ rend.i = 0
  /\ disp.on = {1} /\ disp.seg = shown[1] /\ disp.seg # 0

\* what follows S_END: the relay is switched off on the way to S_INIT, then
\* S_IDLE; and none of S_INIT, S_START, S_RUNNING, S_END is held forever
EndedReturnsToIdle ==
  /\ (state = S_END) ~> (state = S_INIT /\ relay = LOW)
  /\ (state = S_INIT) ~> (state = S_IDLE)
  /\ \A s \in {S_INIT, S_START, S_RUNNING, S_END} : []<>(state # s)

\* the run is paused by a press in S_RUNNING only finitely often
PausedFinitelyOften == <>[](state # S_PAUSE)

\* C18 (as stated): once Armed, with the clock advancing, the loop running
\* and every pause answered by a press or long press, the FSM reaches Ended,
\* the relay is switched off and the FSM returns through Init to Idle; only
\* Idle and Paused can be held forever.
C18_ArmedAlwaysEnds ==
  /\ (state = S_START) ~> (state = S_END)
  /\ EndedReturnsToIdle

\* C18 (amended): the same for a run that is paused only finitely often; a
\* run paused and resumed again and again, each time before the next tick
\* is due, never ends.
C18_ArmedEndsUnlessPausedForever ==
  /\ PausedFinitelyOften => ((state = S_START) ~> (state = S_END))
  /\ EndedReturnsToIdle

\* a run has ended, the relay has been switched off, S_INIT is pending
C18_Witness ==
  /\ state = S_INIT /\ prev = S_END /\ relay = LOW
  /\ setPoint # 0 /\ minutes = 0

\* C21: whenever the state is S_IDLE at a loop-pass boundary, minutes and
\* seconds are the conversion of the current setPoint, and a pass that
\* stays in S_IDLE has put that time on the display; so after a run has
\* finished or was aborted the time is reloaded from the unchanged setPoint.
C21_IdleShowsSetPoint ==
  state = S_IDLE =>
    /\ <<minutes, seconds>> = Conv(setPoint)
    /\ prev = S_IDLE =>
         shown = TimeShown(Conv(setPoint)[1] * 100 + Conv(setPoint)[2], 2)

\* back in S_IDLE after a run of 0:05 that counted down to its end: the
\* display still holds the 0:59 the run left behind, minutes and seconds
\* are 0:05 again
C21_Witness ==
  /\ state = S_IDLE /\ prev = S_INIT /\ relay = LOW
  /\ setPoint = 1 /\ minutes = 0 /\ seconds = 5
  /\ shown = TimeShown(59, 2)

\* C22: inMessage is true only while the state is S_PAUSE, so it is false
\* at every loop-pass boundary in S_INIT, S_IDLE, S_START, S_RUNNING and
\* S_END, and every pass that starts outside S_PAUSE draws the time: after
\* a pass from S_INIT, S_IDLE, S_START or S_RUNNING the display holds the
\* minutes and seconds the pass started with (the S_END pass draws the time
\* and then its message).
C22_MessageOnlyWhilePaused ==
  /\ [](inMessage => state = S_PAUSE)
  /\ [][(state \in {S_INIT, S_IDLE, S_START, S_RUNNING}) =>
          shown' = TimeShown(minutes * 100 + seconds, 2)]_vars
  /\ [][state = S_END => shown' = MesgShown(MesgEnd)]_vars

\* the first pass after a resume has drawn the time over the pause message
C22_Witness ==
  /\ state = S_RUNNING /\ prev = S_RUNNING /\ ~inMessage
  /\ sinceBase > 0 /\ baseTicks = 0 /\ ticks > 0
  /\ shown = TimeShown(minutes * 100 + seconds, 2)

=============================================================================
